---- MODULE Spec2Model ----
(***************************************************************************)
(* A model of timer.py: the Timer stopwatch and the _DebugTimer registry   *)
(* (the module-level singleton debug_timer).                               *)
(*                                                                         *)
(* Times are integers in milliseconds.  The clock `now` is what            *)
(* time.time() returns; it advances by Quantum while caller code runs      *)
(* (Elapse) and while a blocking sync hook runs.                           *)
(***************************************************************************)
EXTENDS Integers, Sequences, FiniteSets, TLC

\* Timer names used by the call sites.
Names == {"a", "b"}

\* Exceptions a scoped body can raise.
BodyErrors == {"KeyError", "RuntimeError"}

\* The sync hooks a caller installs: a no-op, or one that blocks for a while.
Hooks == {"noop", "block"}

\* Prefixes passed to log.
Prefixes == {"", "it:"}

\* ------------------------------------------------------------- bounds
\* clock advances, recorded samples over all timers, log calls, open scopes
MaxTicks == 2
MaxSamples == 3
MaxCalls == 2
MaxDepth == 2

\* the arguments the call sites pass
Warmups == {0, 1}
WindowSizes == {0, 2}
Periods == {1, 2}

\* ------------------------------------------- values fixed by the source
\* Timer.__init__(window_size=20)
DefaultWindow == 20
\* _DebugTimer.window_size = 50
ClassWindow == 50
\* avg_time < 0.01 (seconds), in milliseconds
MsThreshold == 10

\* the clock's resolution in the model, and its last value
Quantum == MsThreshold
MaxTime == MaxTicks * Quantum

VARIABLES
    timers,          \* self.timers: name -> Timer object (a function on the registered names)
    order,           \* insertion order of self.timers (dict order)
    context_stacks,  \* self.context_stacks
    calls,           \* self.calls
    num_warmup,      \* self.num_warmup
    window_size,     \* self.window_size
    sync,            \* self.sync: the installed hook
    now,             \* the clock read by time.time()
    recorded,        \* history: every diff Timer.toc appended to the live Timer of a name
    frames,          \* the call sites' open scopes (with-blocks, wrapper calls, pending decorators)
    wrappers,        \* the names for which a func_wrapper closure exists
    cls,             \* the class _DebugTimer: __TIMER__ and the instances made so far
    last             \* the outcome of the last call: result, raised error, hook calls, emitted line

vars == <<timers, order, context_stacks, calls, num_warmup, window_size, sync,
          now, recorded, frames, wrappers, cls, last>>

\* ------------------------------------------------------------ helpers
None == <<>>
Some(v) == <<v>>

RECURSIVE SumSeq(_)
SumSeq(s) == IF s = <<>> THEN 0 ELSE Head(s) + SumSeq(Tail(s))

RECURSIVE MaxSeq(_)
MaxSeq(s) == IF Len(s) = 1 THEN s[1]
             ELSE LET m == MaxSeq(Tail(s)) IN IF s[1] >= m THEN s[1] ELSE m

Last(s) == s[Len(s)]
Front(s) == SubSeq(s, 1, Len(s) - 1)

\* the last k elements of s (all of s when it is shorter)
LastN(s, k) == IF Len(s) <= k THEN s ELSE SubSeq(s, Len(s) - k + 1, Len(s))

\* round(num / den) to the nearest integer, ties to even (num >= 0, den > 0)
RoundDiv(num, den) ==
    LET q == num \div den
        r == num % den
    IN IF 2 * r < den THEN q
       ELSE IF 2 * r > den THEN q + 1
       ELSE IF q % 2 = 0 THEN q ELSE q + 1

\* the outcome of a call: the method, the timer name it was given, the error it
\* raised ("none" when it returned), the number it returned (None otherwise),
\* how often it called the sync hook, and the line it handed to log_func
Outcome(op, name, err, ret, syncs, out) ==
    [op |-> op, name |-> name, err |-> err, ret |-> ret, syncs |-> syncs, out |-> out]

\* ------------------------------------------------------------- Timer
\* Timer.__init__
Timer(window_size_arg) ==
    [deque |-> <<>>, maxlen |-> window_size_arg,
     start_time |-> 0, total_time |-> 0, calls |-> 0]

\* deque(maxlen=m).append(x): the oldest element is dropped when full
DequeAppendNoEvict(d, m, x) == Append(d, x)
DequeAppend(d, m, x) ==
    IF m = 0 THEN <<>>
    ELSE IF Len(d) >= m THEN Append(Tail(d), x)
    ELSE Append(d, x)

\* Timer.tic
Timer_tic_keeps_start(t, time) == IF t.start_time = 0 THEN [t EXCEPT !.start_time = time] ELSE t
Timer_tic(t, time) == [t EXCEPT !.start_time = time]

\* Timer.toc: the diff it returns
Timer_diff(t, time) == time - t.start_time

\* Timer.toc: the timer afterwards
Timer_toc_drops_total(t, time) ==
    [t EXCEPT !.calls = @ + 1,
              !.deque = DequeAppend(@, t.maxlen, Timer_diff(t, time))]
Timer_toc(t, time) ==
    [t EXCEPT !.total_time = @ + Timer_diff(t, time),
              !.calls = @ + 1,
              !.deque = DequeAppend(@, t.maxlen, Timer_diff(t, time))]

\* Timer.avg, as the fraction <<numerator, denominator>> (np.mean of the deque)
avg(t) == IF t.deque # <<>> THEN <<SumSeq(t.deque), Len(t.deque)>> ELSE <<0, 1>>

\* Timer.global_avg: total_time / calls; raises ZeroDivisionError when calls = 0
global_avg_raises(t) == t.calls = 0
global_avg(t) == <<t.total_time, t.calls>>

\* Timer.max
max(t) == IF t.deque # <<>> THEN MaxSeq(t.deque) ELSE 0

\* Timer.value
value(t) == IF t.deque # <<>> THEN Last(t.deque) ELSE 0

\* ------------------------------------------------------ _DebugTimer
Registered == DOMAIN timers

\* timer_obj of set_window_size: partial(Timer, window_size=n) if n > 0 else Timer
timer_obj_always_partial(n) == Timer(n)
timer_obj(n) == IF n > 0 THEN Timer(n) ELSE Timer(DefaultWindow)

\* self.sync(): the clock after the hook has run
SyncDelay(hook) == IF hook = "block" THEN Quantum ELSE 0

\* self.timers[name] of a defaultdict: the timer, created when missing
Lookup(name) == IF name \in Registered THEN timers[name] ELSE timer_obj(window_size)

\* the condition of toc: self.calls >= self.num_warmup
WarmedUpStrict(c, k) == c > k
WarmedUp(c, k) == c >= k

\* does toc(name) reach timer.toc(): the timer exists and warmup is over
TocRecords(name) == name \in Registered /\ WarmedUp(calls, num_warmup)

\* does toc(name) call the hook: self.sync() stands inside the same if
TocSyncsAlways(name) == name \in Registered
TocSyncs(name) == TocRecords(name)

\* the assertion of set_window_size: len(self.timers) == 0
WindowSizeAllowedAlways == TRUE
WindowSizeAllowed == Cardinality(Registered) = 0

\* the condition of log: self.calls % logperiod == 0 and self.timers
LogDue(c, period) == c % period = 0 /\ Registered # {}

\* ------------------------------------------------- call-site protocol
\* a frame of the call sites: a `with self(name)` being evaluated or entered
\* (use "with"), the same inside func_wrapper (use "wrap"), or a decorator
\* expression whose function has not been passed yet (use "deco")
Frame(stage, use, name) == [stage |-> stage, use |-> use, name |-> name]

\* ordinary statements run at top level or in the body of an entered scope
CanRun == IF frames = <<>> THEN TRUE ELSE Last(frames).stage = "entered"

EmptyFn == [n \in {} |-> None]

\* --------------------------------------------------------- tic / toc
\* _DebugTimer.tic calls the hook once, then timer.tic() reads the clock
TicHookCalls(name) == 1
TicInstant(name) == now + TicHookCalls(name) * SyncDelay(sync)

\* the state change of _DebugTimer.tic(name)
DoTic(name) ==
    /\ TicInstant(name) <= MaxTime
    /\ timers' = [n \in Registered \cup {name} |->
                    IF n = name THEN Timer_tic(Lookup(name), TicInstant(name))
                    ELSE timers[n]]
    /\ order' = IF name \in Registered THEN order ELSE Append(order, name)
    /\ recorded' = [n \in Registered \cup {name} |->
                    IF n \in Registered THEN recorded[n] ELSE <<>>]
    /\ now' = now + TicHookCalls(name) * SyncDelay(sync)

\* _DebugTimer.toc: the hook is called on the recording path only
TocHookCalls(name) == IF TocSyncs(name) THEN 1 ELSE 0
TocInstant(name) == now + TocHookCalls(name) * SyncDelay(sync)

\* what _DebugTimer.toc(name) raises
TocErrNone(name) == "none"
TocErrWhenIdle(name) ==
    IF name \in Registered /\ timers[name].calls = 0 THEN "none" ELSE "ValueError"
TocErr(name) == IF name \in Registered THEN "none" ELSE "ValueError"

\* what _DebugTimer.toc(name) returns: timer.toc()'s diff, or None
TocRet(name) ==
    IF TocErr(name) = "none" /\ TocRecords(name)
    THEN Some(Timer_diff(timers[name], TocInstant(name)))
    ELSE None

\* the number of samples recorded so far, over all live timers
RECURSIVE CountRecorded(_)
CountRecorded(S) ==
    IF S = {} THEN 0
    ELSE LET n == CHOOSE x \in S : TRUE
         IN Len(recorded[n]) + CountRecorded(S \ {n})

\* the state change of _DebugTimer.toc(name)
DoToc(name) ==
    IF TocErr(name) = "none" /\ name \in Registered /\ TocRecords(name)
    THEN /\ CountRecorded(Registered) < MaxSamples
         /\ TocInstant(name) <= MaxTime
         /\ timers' = [timers EXCEPT ![name] = Timer_toc(@, TocInstant(name))]
         /\ recorded' = [recorded EXCEPT
                            ![name] = Append(@, Timer_diff(timers[name], TocInstant(name)))]
         /\ now' = now + TocHookCalls(name) * SyncDelay(sync)
         /\ UNCHANGED <<order>>
    ELSE /\ now + TocHookCalls(name) * SyncDelay(sync) <= MaxTime
         /\ now' = now + TocHookCalls(name) * SyncDelay(sync)
         /\ UNCHANGED <<timers, recorded, order>>

\* debug_timer.tic(name)
tic(name) ==
    /\ CanRun
    /\ last' = Outcome("tic", name, "none", None, TicHookCalls(name), None)
    /\ DoTic(name)
    /\ UNCHANGED <<context_stacks, calls, num_warmup, window_size, sync, frames, wrappers, cls>>

\* debug_timer.toc(name)
toc(name) ==
    /\ CanRun
    /\ last' = Outcome("toc", name, TocErr(name), TocRet(name), TocHookCalls(name), None)
    /\ DoToc(name)
    /\ UNCHANGED <<context_stacks, calls, num_warmup, window_size, sync, frames, wrappers, cls>>

\* ------------------------------------------------------- __getattr__
\* the attribute names the call sites use that are no real attribute
Attrs == {n \o "_tic" : n \in Names} \cup {n \o "_toc" : n \in Names} \cup {"reset"}

\* name.endswith(suffix)
EndsWith(attr, suffix) ==
    /\ Len(attr) >= Len(suffix)
    /\ SubSeq(attr, Len(attr) - Len(suffix) + 1, Len(attr)) = suffix

\* name[:-4], 4 being the length of either suffix
StemOffByOne(attr, suffix) == SubSeq(attr, 1, Len(attr) - Len(suffix) + 1)
Stem(attr, suffix) == SubSeq(attr, 1, Len(attr) - Len(suffix))

\* debug_timer.<attr>(): __getattr__ resolves attr, the lambda is called
getattr(attr) ==
    /\ CanRun
    /\ IF EndsWith(attr, "_tic") THEN tic(Stem(attr, "_tic"))
       ELSE IF EndsWith(attr, "_toc") THEN toc(Stem(attr, "_toc"))
       ELSE /\ last' = Outcome("getattr", "", "AttributeError", None, 0, None)
            /\ UNCHANGED <<timers, order, context_stacks, calls, num_warmup, window_size,
                           sync, now, recorded, frames, wrappers, cls>>

\* ------------------------------------------------ set_sync_func etc.
\* debug_timer.set_sync_func(func), func a callable
set_sync_func(func) ==
    /\ CanRun
    /\ sync' = func
    /\ last' = Outcome("set_sync_func", "", "none", None, 0, None)
    /\ UNCHANGED <<timers, order, context_stacks, calls, num_warmup, window_size,
                   now, recorded, frames, wrappers, cls>>

\* debug_timer.set_window_size(n), n an int
set_window_size(n) ==
    /\ CanRun
    /\ IF WindowSizeAllowed
       THEN /\ window_size' = n
            /\ timers' = EmptyFn
            /\ order' = <<>>
            /\ recorded' = EmptyFn
            /\ last' = Outcome("set_window_size", "", "none", None, 0, None)
       ELSE /\ UNCHANGED <<window_size, timers, order, recorded>>
            /\ last' = Outcome("set_window_size", "", "AssertionError", None, 0, None)
    /\ UNCHANGED <<context_stacks, calls, num_warmup, sync, now, frames, wrappers, cls>>

\* what reset_timer raises: timer.reset() on the first timer of the loop, and
\* Timer defines no reset
ResetErr == IF Registered # {} THEN "AttributeError" ELSE "none"

\* debug_timer.reset_timer(): no timer is changed, by the empty loop or by the raise
reset_timer ==
    /\ CanRun
    /\ last' = Outcome("reset_timer", "", ResetErr, None, 0, None)
    /\ UNCHANGED <<timers, recorded, order, context_stacks, calls, num_warmup,
                   window_size, sync, now, frames, wrappers, cls>>

\* --------------------------------------------------------------- log
\* avg_time of one timer in log: timer.avg if self.window_size > 0 else timer.global_avg
AvgTime(name) ==
    IF window_size > 0 THEN avg(timers[name]) ELSE global_avg(timers[name])

\* does reading avg_time of this timer raise ZeroDivisionError
AvgTimeRaises(name) == window_size <= 0 /\ global_avg_raises(timers[name])

\* " {}: {:.3f}{} ".format(name, avg_time, suffix): the value in thousandths of
\* the unit, ms when avg_time < 0.01 s and s otherwise
LogField(name) ==
    LET a == AvgTime(name) IN
    IF a[1] < MsThreshold * a[2]
    THEN [name |-> name, value |-> RoundDiv(1000 * a[1], a[2]), suffix |-> "ms"]
    ELSE [name |-> name, value |-> RoundDiv(a[1], a[2]), suffix |-> "s"]

\* "|".join(lines): the prefix, one field per timer in dict order, and ""
LogLine(prefix) ==
    [prefix |-> prefix, fields |-> [i \in 1..Len(order) |-> LogField(order[i])]]

\* self.calls += 1
LogCountOnlyWhenDue(c) == IF Registered # {} THEN c + 1 ELSE c
LogCount(c) == c + 1

\* what log raises once it is due
LogErr(period) ==
    IF LogDue(LogCount(calls), period) /\ \E n \in Registered : AvgTimeRaises(n)
    THEN "ZeroDivisionError" ELSE "none"

\* what log hands to log_func: one line, or nothing
LogOut(period, prefix) ==
    IF LogDue(LogCount(calls), period) /\ LogErr(period) = "none"
    THEN Some(LogLine(prefix)) ELSE None

\* debug_timer.log(logperiod=period, prefix=prefix)
log(period, prefix) ==
    /\ CanRun
    /\ calls < MaxCalls
    /\ calls' = LogCount(calls)
    /\ last' = Outcome("log", "", LogErr(period), None, 0,
                       LogOut(period, prefix))
    /\ UNCHANGED <<timers, recorded, order, context_stacks, num_warmup, window_size,
                   sync, now, frames, wrappers, cls>>

\* ------------------------------------------------- scopes, decorators
Results == {1, 2}

\* self(name) with a str: __call__ pushes the name and returns self.  The call
\* site is a with statement, a decorator line, or func_wrapper's with statement.
call_str(name, use) ==
    /\ Len(frames) < MaxDepth
    /\ \/ CanRun /\ use \in {"with", "deco"}
       \/ CanRun /\ use = "wrap" /\ name \in wrappers
       \/ frames # <<>> /\ Last(frames) = Frame("called", "deco", Last(frames).name)
                        /\ use = "deco"
    /\ context_stacks' = Append(context_stacks, name)
    /\ frames' = Append(frames, Frame("called", use, name))
    /\ last' = Outcome("call_str", name, "none", None, 0, None)
    /\ UNCHANGED <<timers, recorded, order, calls, num_warmup, window_size, sync, now, wrappers, cls>>

\* self.context_stacks.pop(-1): the list afterwards
PopKeeps(stack) == stack
Pop(stack) == Front(stack)

\* self(func): __call__ pops the decorator's name and returns func_wrapper
call_func ==
    /\ frames # <<>>
    /\ Last(frames).stage = "called" /\ Last(frames).use = "deco"
    /\ IF context_stacks = <<>>
       THEN /\ last' = Outcome("call_func", "", "IndexError", None, 0, None)
            /\ UNCHANGED <<context_stacks, wrappers>>
       ELSE /\ context_stacks' = Pop(context_stacks)
            /\ wrappers' = wrappers \cup {Last(context_stacks)}
            /\ last' = Outcome("call_func", Last(context_stacks), "none", None, 0, None)
    /\ frames' = Front(frames)
    /\ UNCHANGED <<timers, recorded, order, calls, num_warmup, window_size, sync, now, cls>>

\* __enter__: tic(self.context_stacks[-1])
enter ==
    /\ frames # <<>>
    /\ Last(frames).stage = "called" /\ Last(frames).use \in {"with", "wrap"}
    /\ IF context_stacks = <<>>
       THEN /\ last' = Outcome("enter", "", "IndexError", None, 0, None)
            /\ frames' = Front(frames)
            /\ UNCHANGED <<timers, order, recorded, now>>
       ELSE /\ last' = Outcome("enter", Last(context_stacks), "none", None,
                               TicHookCalls(Last(context_stacks)), None)
            /\ DoTic(Last(context_stacks))
            /\ frames' = [frames EXCEPT ![Len(frames)].stage = "entered"]
    /\ UNCHANGED <<context_stacks, calls, num_warmup, window_size, sync, wrappers, cls>>

\* what __exit__ raises: toc's error, else the body's exc_value (raise exc_value)
ExitErrSwallow(name, exc) == TocErr(name)
ExitErr(name, exc) == IF TocErr(name) # "none" THEN TocErr(name) ELSE exc

\* the name __exit__ pops: self.context_stacks.pop(-1)
ExitNameBottom(stack) == Head(stack)
ExitName(stack) == Last(stack)

\* what func_wrapper hands to its caller: `return name_or_func(*args, **kwargs)`
\* inside the with statement, nothing when an error leaves it
WrapperRetNone(err, result) == None
WrapperRet(err, result) == IF err = "none" THEN Some(result) ELSE None

\* __exit__(exc_type, exc_value, traceback) at the end of the innermost open scope;
\* exc is "none" when the body finished, and then the body's result passes through
\* func_wrapper's return
exit(exc, result) ==
    /\ frames # <<>>
    /\ Last(frames).stage = "entered"
    /\ IF context_stacks = <<>>
       THEN /\ last' = Outcome("exit", "", "IndexError", None, 0, None)
            /\ UNCHANGED <<context_stacks, timers, order, recorded, now>>
       ELSE /\ context_stacks' = Pop(context_stacks)
            /\ last' = Outcome("exit", ExitName(context_stacks),
                               ExitErr(ExitName(context_stacks), exc),
                               IF Last(frames).use = "wrap"
                               THEN WrapperRet(ExitErr(ExitName(context_stacks), exc), result)
                               ELSE None,
                               TocHookCalls(ExitName(context_stacks)), None)
            /\ DoToc(ExitName(context_stacks))
    /\ frames' = Front(frames)
    /\ UNCHANGED <<calls, num_warmup, window_size, sync, wrappers, cls>>

\* ------------------------------------------------------ construction
\* the class as its definition leaves it: __TIMER__ = None, no instance yet
ClassDef == [TIMER |-> None, instances |-> {}]

\* _DebugTimer.__new__: a new object is created and kept in cls.__TIMER__ only
\* when that is still None; the class afterwards
New_always_creates(c) ==
    [TIMER |-> Some(Cardinality(c.instances) + 1),
     instances |-> c.instances \cup {Cardinality(c.instances) + 1}]
New(c) ==
    IF c.TIMER = None
    THEN [TIMER |-> Some(Cardinality(c.instances) + 1),
          instances |-> c.instances \cup {Cardinality(c.instances) + 1}]
    ELSE c

\* a singleton whose __init__ would leave an instance that exists alone
DebugTimer_init_once(k) ==
    /\ cls' = New(cls)
    /\ last' = Outcome("init", "", "none", New(cls).TIMER, 0, None)
    /\ UNCHANGED <<num_warmup, context_stacks, calls, timers, order, recorded, sync,
                   window_size, now, frames, wrappers>>

\* _DebugTimer(num_warmup=k): __new__ returns cls.__TIMER__ and __init__ runs on
\* it; self.window_size is what the instance already holds, so the assertion of
\* set_window_size is met by the timers __init__ has just replaced
DebugTimer(k) ==
    /\ cls' = New(cls)
    /\ num_warmup' = k
    /\ context_stacks' = <<>>
    /\ calls' = 0
    /\ timers' = EmptyFn
    /\ order' = <<>>
    /\ recorded' = EmptyFn
    /\ sync' = "noop"
    /\ window_size' = window_size
    /\ last' = Outcome("init", "", "none", New(cls).TIMER, 0, None)
    /\ UNCHANGED <<now, frames, wrappers>>

\* a construction at top level, between statements that open no scope
Construct(k) ==
    /\ frames = <<>>
    /\ DebugTimer(k)

\* a construction anywhere caller code runs, the body of an open scope included
Reconstruct(k) ==
    /\ CanRun
    /\ DebugTimer(k)

\* caller code runs: the clock advances
Elapse ==
    /\ now + Quantum <= MaxTime
    /\ now' = now + Quantum
    /\ UNCHANGED <<timers, order, context_stacks, calls, num_warmup, window_size, sync,
                   recorded, frames, wrappers, last, cls>>

\* the state after `debug_timer = _DebugTimer()` at import
Init ==
    /\ timers = EmptyFn
    /\ order = <<>>
    /\ context_stacks = <<>>
    /\ calls = 0
    /\ num_warmup = 0
    /\ window_size = ClassWindow
    /\ sync = "noop"
    /\ now = Quantum
    /\ recorded = EmptyFn
    /\ frames = <<>>
    /\ wrappers = {}
    /\ cls = New(ClassDef)
    /\ last = Outcome("init", "", "none", New(ClassDef).TIMER, 0, None)

\* the registry's methods called from top-level code only
Next ==
    \/ \E n \in Names : tic(n)
    \/ \E n \in Names : toc(n)
    \/ \E f \in Hooks : set_sync_func(f)
    \/ \E n \in WindowSizes : set_window_size(n)
    \/ reset_timer
    \/ \E p \in Periods, x \in Prefixes : log(p, x)
    \/ \E k \in Warmups : Construct(k)
    \/ Elapse

Spec == Init /\ [][Next]_vars

\* scoped and decorator usage, with the calls a scope's body makes; the hook is
\* the no-op and the clock stands still
NextScope ==
    \/ \E n \in Names, u \in {"with", "deco", "wrap"} : call_str(n, u)
    \/ call_func
    \/ enter
    \/ \E e \in BodyErrors \cup {"none"}, r \in Results : exit(e, r)
    \/ \E n \in Names : tic(n)
    \/ \E n \in Names : toc(n)
    \/ \E p \in Periods, x \in Prefixes : log(p, x)
    \/ \E k \in Warmups : Construct(k)

SpecScope == Init /\ [][NextScope]_vars

\* tic and toc by name and through the _tic / _toc attributes
NextAttr ==
    \/ \E n \in Names : tic(n)
    \/ \E n \in Names : toc(n)
    \/ \E a \in Attrs : getattr(a)
    \/ \E f \in Hooks : set_sync_func(f)
    \/ \E p \in Periods, x \in Prefixes : log(p, x)
    \/ \E k \in Warmups : Construct(k)
    \/ Elapse

SpecAttr == Init /\ [][NextAttr]_vars

\* scoped and decorator usage, the registry being constructed again at any
\* point, inside open scopes too; the hook is installed before the registry is
\* used, as the first line of the __main__ example does, bodies return one
\* result and log is given no prefix
NextReinit ==
    \/ \E n \in Names, u \in {"with", "deco", "wrap"} : call_str(n, u)
    \/ call_func
    \/ enter
    \/ \E e \in BodyErrors \cup {"none"} : exit(e, 1)
    \/ \E f \in Hooks : frames = <<>> /\ Registered = {} /\ calls = 0 /\ set_sync_func(f)
    \/ \E p \in Periods : log(p, "")
    \/ \E k \in Warmups : Reconstruct(k)

SpecReinit == Init /\ [][NextReinit]_vars

\* =====================================================================
\* Properties
\* =====================================================================

\* the timers other than n are left as they were
OthersUnchanged(n) ==
    /\ Registered \ {n} = DOMAIN timers' \ {n}
    /\ \A m \in Registered \ {n} : timers'[m] = timers[m]

\* C1: toc(name) on a name that is not registered (never passed to tic) raises
\* ValueError in every state of the registry, warmup included, and the failed
\* call changes nothing: no timer is created or modified, and the call counter
\* and the context stack are as before.
C1_TocUnknownRaises ==
    [][\A n \in Names : (last'.op = "toc" /\ n \notin Registered /\ toc(n)) =>
          /\ last'.op = "toc" /\ last'.name = n /\ last'.err = "ValueError"
          /\ last'.ret = None
          /\ n \notin DOMAIN timers'
          /\ UNCHANGED <<timers, order, recorded, calls, num_warmup, context_stacks,
                         window_size, sync, now>>]_vars

\* C1 witness: a toc of an unknown name has failed during warmup while another
\* timer is registered.
C1_Witness ==
    /\ last.op = "toc" /\ last.err = "ValueError"
    /\ last.name \notin Registered
    /\ Registered # {}
    /\ calls < num_warmup

\* C2: a toc(name) on a registered timer records a sample (appended to the
\* deque, added to total_time, calls incremented) exactly when self.calls >=
\* self.num_warmup at that moment; a toc made earlier leaves every timer as it
\* was.  Neither tic nor toc changes self.calls.
C2_WarmupGating ==
    [][\A n \in Names :
          /\ (last'.op = "tic" /\ tic(n)) => calls' = calls /\ num_warmup' = num_warmup
          /\ (last'.op = "toc" /\ n \in Registered /\ toc(n)) =>
                /\ calls' = calls /\ num_warmup' = num_warmup
                /\ OthersUnchanged(n)
                /\ IF calls >= num_warmup
                   THEN /\ timers'[n].calls = timers[n].calls + 1
                        /\ timers'[n].total_time =
                              timers[n].total_time + (now' - timers[n].start_time)
                        /\ timers'[n].deque # <<>>
                        /\ Last(timers'[n].deque) = now' - timers[n].start_time
                        /\ last'.ret = Some(now' - timers[n].start_time)
                   ELSE /\ timers' = timers
                        /\ last'.ret = None]_vars

\* C2 witness: a toc of a registered timer has returned during warmup with
\* nothing recorded.
C2_Witness ==
    /\ last.op = "toc" /\ last.err = "none" /\ last.ret = None
    /\ calls < num_warmup
    /\ last.name \in Registered
    /\ timers[last.name].calls = 0

C4_SetWindowSize ==
    /\ [](window_size > 0 => \A m \in Registered : timers[m].maxlen = window_size)
    /\ [][\A n \in WindowSizes : (last'.op = "set_window_size" /\ set_window_size(n)) =>
             IF Registered # {}
             THEN /\ last'.err = "AssertionError"
                  /\ window_size' = window_size
                  /\ timers' = timers
             ELSE /\ last'.err = "none"
                  /\ window_size' = n
                  /\ DOMAIN timers' = {}]_vars

\* C4 witness: set_window_size has failed on a registry whose timer was created
\* with the capacity an earlier set_window_size gave.
C4_Witness ==
    /\ last.op = "set_window_size" /\ last.err = "AssertionError"
    /\ window_size \in WindowSizes \ {0}
    /\ \E m \in Registered : timers[m].maxlen = window_size

\* C5: the deque of a timer of capacity w > 0 holds exactly the last min(c, w)
\* recorded diffs, oldest first, c being the number of recorded tocs; it is never
\* longer than w, and from the (w+1)-th recorded toc on the first diff is gone.
C5_WindowHoldsLastSamples ==
    \A n \in Registered :
        timers[n].maxlen > 0 =>
            /\ timers[n].calls = Len(recorded[n])
            /\ Len(timers[n].deque) <= timers[n].maxlen
            /\ timers[n].deque = LastN(recorded[n], timers[n].maxlen)

\* C5 witness: a timer of capacity w has recorded w + 1 diffs, the first of
\* which differs from every diff still in the deque.
C5_Witness ==
    \E n \in Registered :
        /\ timers[n].maxlen \in WindowSizes \ {0}
        /\ Len(recorded[n]) = timers[n].maxlen + 1
        /\ \A i \in 1..Len(timers[n].deque) : timers[n].deque[i] # recorded[n][1]

\* C6 as stated: with window_size 0 the deque of every timer stays empty.
C6_EmptyWhenUnwindowed ==
    window_size = 0 => \A n \in Registered : timers[n].deque = <<>>

\* C6 amended: with window_size 0 every timer is built by Timer() with its
\* default capacity of 20, and its deque holds the last min(c, 20) recorded diffs
\* (so it is not empty once a toc was recorded); total_time and calls are
\* tracked beside it.
C6_DefaultWindowWhenUnwindowed ==
    window_size = 0 =>
        \A n \in Registered :
            /\ timers[n].maxlen = DefaultWindow
            /\ timers[n].deque = LastN(recorded[n], DefaultWindow)
            /\ timers[n].calls = Len(recorded[n])
            /\ timers[n].total_time = SumSeq(recorded[n])

\* C6 witness: with window_size 0 a timer holds recorded diffs in its deque.
C6_Witness ==
    /\ window_size = 0
    /\ \E n \in Registered : Len(timers[n].deque) >= 2

\* C7: log never raises ZeroDivisionError.
C7_LogNeverDividesByZero ==
    last.op = "log" => last.err # "ZeroDivisionError"

\* C8: every log(period) increments self.calls by one, and hands one line to
\* log_func exactly when the incremented counter is a multiple of period and a
\* timer is registered.
C8_LogEmitsWhenDue ==
    [][\A p \in Periods, x \in Prefixes : (last'.op = "log" /\ log(p, x)) =>
          /\ calls' = calls + 1
          /\ (last'.out # None) <=> ((calls + 1) % p = 0 /\ Registered # {})]_vars

\* C9: when the body of a scope raises and self.calls >= self.num_warmup, __exit__
\* pops the scope's own name, toc records exactly one interval on that name's
\* timer and on no other, and the caller sees the error the body raised.
C9_ExitRecordsAndReraises ==
    [][\A e \in BodyErrors, r \in Results :
          (last'.op = "exit" /\ calls >= num_warmup /\ exit(e, r)) =>
              LET n == Last(frames).name IN
              /\ last'.op = "exit" /\ last'.name = n /\ last'.err = e
              /\ context_stacks # <<>> /\ Last(context_stacks) = n
              /\ context_stacks' = Front(context_stacks)
              /\ n \in Registered
              /\ timers'[n].calls = timers[n].calls + 1
              /\ recorded'[n] = Append(recorded[n], now' - timers[n].start_time)
              /\ OthersUnchanged(n)]_vars

\* C9 witness: an inner scope has been left by an error, outside warmup, with
\* its interval recorded, while an outer scope of another name is still open.
C9_Witness ==
    /\ last.op = "exit" /\ last.err \in BodyErrors
    /\ calls >= num_warmup
    /\ last.name \in Registered
    /\ timers[last.name].calls = 1
    /\ frames # <<>>
    /\ Last(frames).stage = "entered"
    /\ Last(frames).name # last.name
    /\ context_stacks = <<Last(frames).name>>

\* C10: reset_timer succeeds in every state, and afterwards every registered
\* timer is as Timer.__init__ left it, the registered names being the same.
C10_ResetRestoresInitialState ==
    last.op = "reset_timer" =>
        /\ last.err = "none"
        /\ \A n \in Registered : timers[n] = Timer(timers[n].maxlen)

\* C11: once self.calls >= self.num_warmup, a tic(n) changes the calls and the
\* total_time of no timer, and the toc(n) that completes the pair adds exactly 1
\* to the calls of timer n and exactly the diff it returns to its total_time,
\* the other timers being left as they were; so over any number of pairs
\* calls counts the pairs and total_time is the sum of the returned diffs.
C11_PairCountsOnce ==
    /\ [](\A n \in Registered :
             /\ timers[n].calls = Len(recorded[n])
             /\ timers[n].total_time = SumSeq(recorded[n]))
    /\ [][\A n \in Names :
             /\ (last'.op = "tic" /\ calls >= num_warmup /\ tic(n)) =>
                   /\ OthersUnchanged(n)
                   /\ timers'[n].calls = Lookup(n).calls
                   /\ timers'[n].total_time = Lookup(n).total_time
             /\ (last'.op = "toc" /\ calls >= num_warmup /\ n \in Registered /\ toc(n)) =>
                   /\ last'.ret # None
                   /\ timers'[n].calls = timers[n].calls + 1
                   /\ timers'[n].total_time = timers[n].total_time + last'.ret[1]
                   /\ recorded'[n] = Append(recorded[n], last'.ret[1])
                   /\ OthersUnchanged(n)]_vars

\* C11 witness: the second pair of a timer has just been completed with a
\* diff above zero, its total being the sum of both returned diffs, while
\* another timer holds its own single pair.
C11_Witness ==
    /\ last.op = "toc" /\ last.ret # None /\ last.ret[1] > 0
    /\ last.name \in Registered
    /\ timers[last.name].calls = 2
    /\ timers[last.name].total_time = recorded[last.name][1] + last.ret[1]
    /\ \E m \in Registered \ {last.name} : timers[m].calls = 1

\* C12: the registry is a singleton: __new__ has created exactly one instance,
\* cls.__TIMER__ holds it, and every construction, with any num_warmup and after
\* any use of the registry, returns that instance and creates no other.
C12_Singleton ==
    /\ [](/\ Cardinality(cls.instances) = 1
          /\ cls.TIMER # None
          /\ cls.instances = {cls.TIMER[1]})
    /\ [][\A k \in Warmups : (last'.op = "init" /\ Construct(k)) =>
             /\ last'.err = "none"
             /\ last'.ret = cls.TIMER
             /\ cls' = cls]_vars

\* C12 witness: a later construction, made with another num_warmup after the
\* clock has advanced, has returned the instance the import created.
C12_Witness ==
    /\ last.op = "init" /\ last.ret = Some(1)
    /\ num_warmup = 1
    /\ now > Quantum
    /\ cls.instances = {1}

\* the names of the open scopes, outermost first
ScopeNames(fs) == [i \in 1..Len(fs) |-> fs[i].name]

\* C13: decorating a function with a name (self(name), then self(func)) makes
\* no tic and no toc and leaves context_stacks as it was before; every call of
\* the wrapper makes one tic(name) before the wrapped call and one toc(name)
\* after it, also when the wrapped call raises, and hands on the wrapped call's
\* result, or its error, unchanged.
C13_DecoratorWraps ==
    [][/\ \A n \in Names : (last'.op = "call_str" /\ call_str(n, "deco")) =>
             /\ UNCHANGED <<timers, recorded, now>>
             /\ last'.syncs = 0
             /\ context_stacks = ScopeNames(frames)
             /\ context_stacks' = Append(context_stacks, n)
       /\ (last'.op = "call_func" /\ call_func) =>
             /\ UNCHANGED <<timers, recorded, now>>
             /\ last'.syncs = 0 /\ last'.err = "none"
             /\ last'.name = Last(frames).name
             /\ last'.name \in wrappers'
             /\ frames' = Front(frames)
             /\ context_stacks' = ScopeNames(frames')
       /\ (last'.op = "enter" /\ frames # <<>> /\ Last(frames).use = "wrap" /\ enter) =>
             LET n == Last(frames).name IN
             /\ n \in wrappers
             /\ last'.name = n /\ last'.err = "none" /\ last'.syncs = 1
             /\ timers'[n].start_time = now'
             /\ timers'[n].calls = Lookup(n).calls
             /\ \A m \in Registered : recorded'[m] = recorded[m]
             /\ context_stacks' = context_stacks
             /\ OthersUnchanged(n)
       /\ \A e \in BodyErrors \cup {"none"}, r \in Results :
             (last'.op = "exit" /\ frames # <<>> /\ Last(frames).use = "wrap" /\ exit(e, r)) =>
                 LET n == Last(frames).name IN
                 /\ last'.name = n /\ last'.err = e
                 /\ last'.ret = IF e = "none" THEN Some(r) ELSE None
                 /\ n \in Registered
                 /\ IF calls >= num_warmup
                    THEN /\ timers'[n].calls = timers[n].calls + 1
                         /\ recorded'[n] = Append(recorded[n], now' - timers[n].start_time)
                    ELSE UNCHANGED <<timers, recorded>>
                 /\ OthersUnchanged(n)
                 /\ context_stacks' = ScopeNames(frames')]_vars

\* C13 witness: a call of a wrapper, made inside a with-block of another name,
\* has returned the wrapped call's result with one interval recorded on the
\* wrapper's name.
C13_Witness ==
    /\ last.op = "exit" /\ last.err = "none" /\ last.ret = Some(2)
    /\ last.name \in wrappers
    /\ timers[last.name].calls = 1
    /\ frames # <<>> /\ Last(frames).use = "with" /\ Last(frames).name # last.name
    /\ context_stacks = <<Last(frames).name>>

\* C14: for every base name X, the call X_tic() is the call tic(X) and the call
\* X_toc() is the call toc(X): from every state of the registry each of the two
\* leads to the state, the result and the error the other leads to.  (X_tic
\* is taken by the "_tic" branch of __getattr__ and X_toc by the "_toc" branch,
\* so neither ends in AttributeError or in the other method.)
C14_ShorthandIsSugar ==
    [][/\ last'.op = "tic" => \A n \in Names : getattr(n \o "_tic") <=> tic(n)
       /\ last'.op = "toc" => \A n \in Names : getattr(n \o "_toc") <=> toc(n)
       /\ last'.op = "getattr" =>
             \A n \in Names : ~getattr(n \o "_tic") /\ ~getattr(n \o "_toc")
       /\ \A n \in Names :
             /\ EndsWith(n \o "_tic", "_tic")
             /\ EndsWith(n \o "_toc", "_toc") /\ ~EndsWith(n \o "_toc", "_tic")]_vars

\* C14 witness: the state X_toc() and toc(X) both lead to from a registry whose
\* timer X is started and whose hook blocks: the diff, the time the hook took,
\* is returned and recorded.
C14_Witness ==
    /\ last.op = "toc" /\ last.err = "none" /\ last.ret = Some(Quantum)
    /\ sync = "block"
    /\ timers[last.name].calls = 1
    /\ value(timers[last.name]) = Quantum

\* C15: context_stacks is as deep as the number of scopes that are open (with
\* statements and wrapper calls evaluated or entered, decorator lines whose
\* function is still to be passed); wherever caller code runs all of them are
\* entered; and once every scope is completed, by a normal end or by an error,
\* context_stacks is empty again.
C15_StackDepthIsOpenScopes ==
    /\ Len(context_stacks) = Len(frames)
    /\ frames = <<>> => context_stacks = <<>>
    /\ CanRun => \A i \in 1..Len(frames) : frames[i].stage = "entered"

\* C15 witness: the last open scope has been left by an error, scopes of both
\* names and a wrapper call having been completed before, and the stack is empty.
C15_Witness ==
    /\ last.op = "exit" /\ last.err \in BodyErrors
    /\ frames = <<>> /\ context_stacks = <<>>
    /\ wrappers # {}
    /\ \A n \in Names : n \in Registered /\ timers[n].calls >= 1

\* C16 as stated: at every scope exit the name popped and toc'd is the name the
\* matching entry pushed and tic'd, and the exit of an inner scope leaves the
\* timer of every scope still open around it as it was, scopes of the same name
\* included.
C16_InnerExitLeavesOuterTimers ==
    [][\A e \in BodyErrors \cup {"none"}, r \in Results :
          (last'.op = "exit" /\ exit(e, r)) =>
              /\ last'.name = Last(frames).name
              /\ \A i \in 1..(Len(frames) - 1) :
                    timers'[frames[i].name] = timers[frames[i].name]]_vars

\* C16 amended: context_stacks holds the names of the open scopes in the order
\* they were pushed; __enter__ tics the name its scope pushed and __exit__ pops
\* and tocs the name its scope pushed, so the exit of an inner scope leaves the
\* timer of every open scope of another name as it was.  Scopes of the same
\* name share one timer: the inner entry restarts it and the inner exit
\* records on it.  (A step whose outcome is an enter or an exit is a step of
\* __enter__ or __exit__.)
C16_LifoNameMatching ==
    /\ [](context_stacks = ScopeNames(frames))
    /\ [][/\ last'.op = "enter" =>
                 LET n == Last(frames).name IN
                 /\ last'.name = n
                 /\ timers'[n].start_time = now'
                 /\ OthersUnchanged(n)
          /\ last'.op = "exit" =>
                 LET x == Last(frames).name IN
                 /\ last'.name = x
                 /\ context_stacks' = ScopeNames(frames')
                 /\ \A i \in 1..(Len(frames) - 1) :
                       frames[i].name # x =>
                           timers'[frames[i].name] = timers[frames[i].name]
                 /\ calls >= num_warmup =>
                       timers'[x].calls = timers[x].calls + 1]_vars

\* C16 witness: the inner one of two nested scopes of the same name has been
\* left, its interval recorded on the timer the outer scope, still open, uses.
C16_Witness ==
    /\ last.op = "exit" /\ last.err = "none"
    /\ Len(frames) = 1
    /\ frames[1].stage = "entered" /\ frames[1].name = last.name
    /\ context_stacks = <<last.name>>
    /\ timers[last.name].calls = 1

\* C17: tic(name) never fails; it creates the timer when it is missing and
\* assigns it the instant read as its start_time, whatever start_time was, and
\* changes the deque, total_time and calls of no timer.  No call other than
\* tic(name) changes the start_time of a timer that stays registered, so a toc
\* that records measures from the latest tic, and an interval that a second
\* tic cut short is recorded nowhere.
C17_TicRestartsInterval ==
    [][\A n \in Names :
          IF last'.op = "tic" /\ last'.name = n /\ tic(n)
          THEN /\ last'.err = "none"
               /\ timers'[n] = [Lookup(n) EXCEPT !.start_time = now']
               /\ OthersUnchanged(n)
               /\ \A m \in Registered : recorded'[m] = recorded[m]
          ELSE /\ (n \in Registered /\ n \in DOMAIN timers') =>
                     timers'[n].start_time = timers[n].start_time
               /\ (last'.op = "toc" /\ last'.ret # None /\ n \in Registered /\ toc(n)) =>
                     /\ calls >= num_warmup
                     /\ last'.ret = Some(now' - timers[n].start_time)
                     /\ recorded'[n] = Append(recorded[n], now' - timers[n].start_time)]_vars

\* C17 witness: a timer that holds one recorded diff has been started again at
\* a later instant; its deque, total_time and calls are as that toc left them.
C17_Witness ==
    /\ last.op = "tic"
    /\ last.name \in Registered
    /\ timers[last.name].start_time = now /\ now = MaxTime
    /\ timers[last.name].calls = 1
    /\ timers[last.name].deque = <<0>>
    /\ timers[last.name].total_time = 0
    /\ recorded[last.name] = <<0>>

\* C18: toc(name) on a registered timer raises nothing, whatever the timer
\* holds and whether or not a tic came since its last toc; when self.calls >=
\* self.num_warmup it records one more diff, measured from the start_time the
\* timer holds, adds 1 to calls and leaves start_time as it is.
C18_TocOnKnownTimerNeverFails ==
    [][\A n \in Names :
          (last'.op = "toc" /\ n \in Registered /\ toc(n)) =>
              /\ last'.err = "none"
              /\ n \in DOMAIN timers'
              /\ timers'[n].start_time = timers[n].start_time
              /\ IF calls >= num_warmup
                 THEN /\ last'.ret = Some(now' - timers[n].start_time)
                      /\ timers'[n].calls = timers[n].calls + 1
                      /\ value(timers'[n]) = now' - timers[n].start_time
                 ELSE /\ last'.ret = None
                      /\ timers'[n] = timers[n]]_vars

\* C18 witness: a timer holds two diffs measured from one start_time: its first
\* toc came a clock step after its tic, and no tic came between that toc and
\* the second one.
C18_Witness ==
    /\ last.op = "toc" /\ last.err = "none" /\ last.ret # None
    /\ last.name \in Registered
    /\ timers[last.name].calls = 2
    /\ Len(recorded[last.name]) = 2
    /\ recorded[last.name][1] > 0
    /\ timers[last.name].start_time + recorded[last.name][1] <= now
    /\ timers[last.name].start_time < Quantum + recorded[last.name][1]
    /\ timers[last.name].start_time + recorded[last.name][2] = now

\* C19: log(period, prefix) adds 1 to self.calls and changes nothing else,
\* whether it hands a line to log_func, stays silent or raises: the registered
\* names and their order, every timer (deque, total_time, calls, start_time),
\* context_stacks, window_size, num_warmup and the hook are as before, the hook
\* is not called and no time passes.  (A step that ends with the outcome of a
\* log and is not the clock advancing is a step of log.)
C19_LogOnlyCounts ==
    [][(last'.op = "log" /\ ~Elapse) =>
          /\ \E p \in Periods : last'.err = LogErr(p)
          /\ calls' = calls + 1
          /\ last'.syncs = 0
          /\ last'.ret = None
          /\ UNCHANGED <<timers, order, recorded, context_stacks, window_size,
                         num_warmup, sync, now, cls>>]_vars

\* C19 witness: a log has handed a line to log_func for two timers, one of
\* which is started and holds a diff above zero, with the blocking hook installed.
C19_Witness ==
    /\ last.op = "log" /\ last.err = "none" /\ last.out # None
    /\ sync = "block"
    /\ Len(order) = 2
    /\ \E n \in Registered : timers[n].calls = 1 /\ timers[n].total_time > 0

\* C20: _DebugTimer(num_warmup=k), called again after the registry has been
\* used, returns the one instance with __init__ run on it anew: no timer is
\* registered, self.calls is 0, context_stacks is empty, the hook is the no-op
\* and num_warmup is k; window_size stays what the instance held, and the call
\* does not fail on the assertion of set_window_size.
C20_ReconstructionReinitialises ==
    [][\A k \in Warmups : (last'.op = "init" /\ Reconstruct(k)) =>
          /\ last'.err = "none"
          /\ last'.ret = cls.TIMER /\ cls' = cls
          /\ DOMAIN timers' = {} /\ order' = <<>>
          /\ calls' = 0
          /\ context_stacks' = <<>>
          /\ sync' = "noop"
          /\ num_warmup' = k
          /\ window_size' = window_size]_vars

\* C20 witness: the registry has been constructed again with num_warmup 1 in the
\* body of the inner one of two open scopes, after the blocking hook had run:
\* the timers and the names of those scopes are gone and the hook is the no-op.
C20_Witness ==
    /\ last.op = "init"
    /\ Len(frames) = 2 /\ Last(frames).stage = "entered"
    /\ now > Quantum
    /\ Registered = {} /\ context_stacks = <<>>
    /\ calls = 0 /\ sync = "noop" /\ num_warmup = 1

====
